---- MODULE Spec2Model ----
(***************************************************************************)
(* Model of scripts/roop_api.py: the POST /internal/roop/image handler     *)
(* run_roop_on_single_image, its image source resolver                     *)
(* download_image_if_needed / download_image, the private path resolver    *)
(* get_private_path and the option mapper upscale_options.                 *)
(*                                                                         *)
(* Strings that the code only compares are strings here.  Strings that the *)
(* code takes apart (paths, file names, task ids) are structured:          *)
(*   a path is [abs, segs], segs the "/"-separated components, and         *)
(*   a component is the sequence of its "."-separated parts, so that       *)
(*   "t1.png" is <<"t1","png">>, "." is <<"","">>, ".." is <<"","","">>    *)
(*   and "" is no component at all.                                        *)
(* A file is [data, by, ino]: its bytes, the request that wrote them last  *)
(* and the inode, which an open file handle keeps hold of.                 *)
(* An Optional[str] is a sequence of length at most one.                   *)
(***************************************************************************)
EXTENDS Integers, Sequences, FiniteSets, TLC

VARIABLES clock, fs, dirs, sd_upscalers, face_restorers, req, pc, loc, hist

vars == <<clock, fs, dirs, sd_upscalers, face_restorers, req, pc, loc, hist>>

----------------------------------------------------------------------------
(* Optional values *)

None == <<>>

Some(v) == <<v>>

----------------------------------------------------------------------------
(* Paths *)

Dot == <<"", "">>

DotDot == <<"", "", "">>

Name(s) == <<s>>

EmptyPath == [abs |-> FALSE, segs |-> <<>>]

AbsPath(segs) == [abs |-> TRUE, segs |-> segs]

RelPath(segs) == [abs |-> FALSE, segs |-> segs]

\* bool(str): a non-empty string
TruthyStr(o) == o # None /\ o[1] # ""

TruthyPath(o) == o # None /\ o[1] # EmptyPath

Front(s) == SubSeq(s, 1, Len(s) - 1)

Last(s) == s[Len(s)]

\* pathlib drops "." components when it parses a path (".." stays).
NoDots(segs) == SelectSeq(segs, LAMBDA c : c # Dot)

\* pathlib: dir / file.  An absolute right operand replaces the left one.
JoinPath(dir, file) ==
    IF file.abs THEN [abs |-> TRUE, segs |-> NoDots(file.segs)]
    ELSE [abs |-> dir.abs, segs |-> NoDots(dir.segs \o file.segs)]

\* f"{path}.{ext}": the text "." ext appended to the path's last component.
AddSuffix(p, ext) ==
    IF p.segs = <<>>
    THEN [abs |-> p.abs, segs |-> << <<"", ext>> >>]
    ELSE [abs |-> p.abs, segs |-> Append(Front(p.segs), Append(Last(p.segs), ext))]

\* os.path.splitext: the last dot of the last component starts the extension,
\* unless only dots precede it.
HasExt(c) == Len(c) >= 2 /\ \E i \in 1..(Len(c) - 1) : c[i] # ""

\* ext[1:] of os.path.splitext(path)
ExtOf(p) ==
    IF p.segs # <<>> /\ HasExt(Last(p.segs)) THEN Last(Last(p.segs)) ELSE ""

\* base of os.path.splitext(path)
BaseOf(p) ==
    IF p.segs # <<>> /\ HasExt(Last(p.segs))
    THEN [abs |-> p.abs, segs |-> Append(Front(p.segs), Front(Last(p.segs)))]
    ELSE p

\* The process's working directory (relative paths start here).
Cwd == << Name("app") >>

\* The directories of a chain: every non-empty prefix of a component list.
Prefixes(segs) == { SubSeq(segs, 1, n) : n \in 0..Len(segs) }

\* Path resolution by the operating system: components are walked left to
\* right, "." stays, ".." steps to the parent, and a component can only be
\* looked up in an existing directory.  Some(canonical component list) or
\* None.
RECURSIVE Walk(_, _, _)
Walk(cur, segs, ds) ==
    IF segs = <<>> THEN Some(cur)
    ELSE IF cur \notin ds THEN None
    ELSE IF Head(segs) = Dot
         THEN Walk(cur, Tail(segs), ds)
    ELSE IF Head(segs) = DotDot
         THEN Walk(IF cur = <<>> THEN cur ELSE Front(cur), Tail(segs), ds)
         ELSE Walk(Append(cur, Head(segs)), Tail(segs), ds)

Resolve(p, ds) == Walk(IF p.abs THEN <<>> ELSE Cwd, p.segs, ds)

\* os.path.exists
PathExists(p, fsys, ds) ==
    /\ p # EmptyPath
    /\ Resolve(p, ds) # None
    /\ Resolve(p, ds)[1] \in (DOMAIN fsys) \cup ds

\* open(path, "rb") succeeds
Readable(p, fsys, ds) ==
    /\ p # EmptyPath
    /\ Resolve(p, ds) # None
    /\ Resolve(p, ds)[1] \in DOMAIN fsys

\* open(path, "wb") succeeds: the parent directory exists and the target is
\* not a directory.
Writable(p, ds) ==
    /\ p # EmptyPath
    /\ Resolve(p, ds) # None
    /\ Resolve(p, ds)[1] \notin ds

PutFile(fsys, key, file) ==
    [k \in (DOMAIN fsys) \cup {key} |-> IF k = key THEN file ELSE fsys[k]]

\* open(path, "wb") on the file at `key`: an existing file is truncated and
\* keeps its inode, a missing one is created empty with a new inode.
OpenForWrite(fsys, key, r, ino) ==
    IF key \in DOMAIN fsys
    THEN [fsys EXCEPT ![key] = [data |-> "", by |-> r, ino |-> @.ino]]
    ELSE PutFile(fsys, key, [data |-> "", by |-> r, ino |-> ino])

\* The inode a handle opened on `key` holds
InodeAt(fsys, key) == fsys[key].ino

\* file.write(data) on a handle: the bytes go to the inode, wherever a rename
\* has put it, and nowhere when it has been replaced meanwhile.  The bodies of
\* the input sets have one length, so a write replaces what was written
\* before it whole.
WriteHandle(fsys, ino, data, r) ==
    [k \in DOMAIN fsys |->
        IF fsys[k].ino = ino THEN [data |-> data, by |-> r, ino |-> ino]
        ELSE fsys[k]]

DropFile(fsys, key) == [k \in (DOMAIN fsys) \ {key} |-> fsys[k]]

----------------------------------------------------------------------------
(* File contents, sniffing, encodings, the network *)

\* imghdr.what: the image type sniffed from the first bytes, if any
imghdr_what(data) ==
    CASE data \in {"pngA", "pngB", "pngR"} -> Some("png")
      [] data = "jpegC" -> Some("jpeg")
      [] OTHER -> None

\* base64.b64decode: Some(bytes), or None when binascii.Error is raised
b64decode(text) ==
    CASE text = "b64:pngA" -> Some("pngA")
      [] text = "b64:jpegC" -> Some("jpegC")
      [] text = "b64:rawD" -> Some("rawD")
      [] OTHER -> None

\* base64.b64encode(...).decode("utf-8")
b64encode(data) == "b64:" \o data

\* image.save(buffer, format="PNG"): the PNG bytes of a result image
PngBytes(image) == IF image = "imgR" THEN "pngR" ELSE "pngA"

\* What the server at a URL sends, when it answers 2xx
UrlBody(url) ==
    CASE url = "http://h/png" -> Some("pngB")
      [] url = "http://h/raw" -> Some("rawD")
      [] OTHER -> None

\* PIL.Image.open identifies the file's content as an image
IsImage(data) == imghdr_what(data) # None

----------------------------------------------------------------------------
(* Time *)

TicksPerSec == 2

SecsPerDay == 2

TicksPerDay == TicksPerSec * SecsPerDay

MaxClock == TicksPerDay + 1

\* start_time.strftime("%Y-%m-%d")
utc_date_str(t) == Name(ToString(t \div TicksPerDay))

\* strftime("%Y-%m-%dT%H:%M:%SZ"): the date, then the second of the day; the
\* fraction of a second is dropped.  Fixed-width text, so text order is the
\* order of these pairs.
FormatTime(t) == <<t \div TicksPerDay, (t % TicksPerDay) \div TicksPerSec>>

TimeLeq(a, b) == a[1] < b[1] \/ (a[1] = b[1] /\ a[2] <= b[2])

----------------------------------------------------------------------------
(* The host: the caller's private directory and the registries *)

\* Paths(gr.Request(request)).private_outdir()
private_outdir == AbsPath(<< Name("data"), Name("u1") >>)

\* Directories and files present before any request is handled.
Dirs0 ==
    { <<>>, Cwd, << Name("data") >>, << Name("tmp") >>,
      << Name("data"), Name("in") >> }

LocalImage == AbsPath(<< Name("data"), Name("in"), <<"a", "png">> >>)

MissingImage == AbsPath(<< Name("data"), Name("in"), <<"gone", "png">> >>)

\* "/data/in/./a.png": the same file, named with a "." component
DottedImage == AbsPath(<< Name("data"), Name("in"), Dot, <<"a", "png">> >>)

FS0 == [k \in { LocalImage.segs } |-> [data |-> "pngA", by |-> 0, ino |-> "disk"]]

\* A disk on which files sit where the handler wants directories: one at the
\* swap folder of date 0 and one at the output folder.
BlockedSwapDir ==
    << Name("data"), Name("u1"), Name("roop"), Name("source"), Name("swap"), Name("0") >>

BlockedOutput == << Name("data"), Name("u1"), Name("roop"), Name("output") >>

Dirs1 == Dirs0 \cup Prefixes(Front(BlockedSwapDir))

FS1 ==
    [k \in { LocalImage.segs, BlockedSwapDir, BlockedOutput } |->
        IF k = LocalImage.segs THEN FS0[k]
        ELSE [data |-> "rawD", by |-> 0, ino |-> "blocked"]]

Registry(names) == [i \in 1..Len(names) |-> [name |-> names[i], id |-> i]]

DefaultUpscalers == Registry(<<"None", "Lanczos">>)

DefaultRestorers == Registry(<<"CodeFormer", "GFPGAN">>)

----------------------------------------------------------------------------
(* Option mapper *)

RECURSIVE FirstNamed(_, _)
FirstNamed(items, name) ==
    IF items = <<>> THEN None
    ELSE IF Head(items).name = name THEN Some(Head(items))
    ELSE FirstNamed(Tail(items), name)

RECURSIVE LastNamed(_, _)
LastNamed(items, name) ==
    IF items = <<>> THEN None
    ELSE IF Last(items).name = name THEN Some(Last(items))
    ELSE LastNamed(Front(items), name)

\* upscaler with the loop not returning at the first match
upscaler_last(upscaler_name, registry) == LastNamed(registry, upscaler_name)

upscaler(upscaler_name, registry) == FirstNamed(registry, upscaler_name)

face_restorer(face_restorer_name, registry) ==
    FirstNamed(registry, face_restorer_name)

upscale_options(o, upscalers, restorers) ==
    [ scale |-> o.scale,
      upscaler |-> upscaler(o.upscaler_name, upscalers),
      face_restorer |-> face_restorer(o.face_restorer_name, restorers),
      upscale_visibility |-> o.upscale_visibility,
      restorer_visibility |-> o.restorer_visibility ]

\* RequestUpscaleOptions(): the defaults; fractions are in percent
DefaultUpscaleOptions ==
    [ scale |-> 1, upscaler_name |-> "", upscale_visibility |-> 100,
      face_restorer_name |-> "CodeFormer", restorer_visibility |-> 100 ]

----------------------------------------------------------------------------
(* Requests and the handler's local state *)

Requests == {1, 2}

ImageSource(url, enc, path) ==
    [image_url |-> url, encoded_image |-> enc, image_filepath |-> path]

RoopOptions(task, face, swap, opts) ==
    [ task_id |-> task, source_image |-> face, swap_image |-> swap,
      face_index |-> 0, model |-> "roop/inswapper_128.onnx",
      upscale_options |-> opts ]

DetailRequired == "image_url, encoded_image, image_filepath at least one is required"

DetailProcess == "Process image failed"

DetailRoop == "Roop process image failed"

Loc0 ==
    [ start_time |-> None, utc_date |-> None, which |-> "face",
      image_name |-> None, todo |-> <<>>, path |-> None, handle |-> None,
      body |-> None,
      image_type |-> None,
      face_image |-> None, swap_image |-> None,
      face_opened |-> None, swap_opened |-> None,
      options |-> None, returned |-> FALSE, result |-> None,
      output_filepath |-> None,
      finish_time |-> None, response |-> None, status |-> 0, detail |-> "" ]

\* What a request has done so far (history, read by the properties only).
Hist0 ==
    [ trace |-> <<>>, after |-> {}, downloads |-> 0, swaps |-> 0,
      written |-> {}, made |-> {}, files |-> {},
      ops |-> [face |-> {}, swap |-> {}] ]

Source(r) ==
    IF loc[r].which = "face" THEN req[r].source_image ELSE req[r].swap_image

\* AllMissing with the third test inverted
AllMissingTypo(src) ==
    src.image_url = None /\ src.encoded_image = None /\ src.image_filepath # None

\* line 116: none of the three fields is given
AllMissing(src) ==
    src.image_url = None /\ src.encoded_image = None /\ src.image_filepath = None

\* UsesLocalPath tried only after the payload
UsesLocalPathUnlessPayload(src, fsys, ds) ==
    /\ ~TruthyStr(src.encoded_image)
    /\ TruthyPath(src.image_filepath)
    /\ PathExists(src.image_filepath[1], fsys, ds)

\* lines 118-119: a local path is given and exists
UsesLocalPath(src, fsys, ds) ==
    TruthyPath(src.image_filepath) /\ PathExists(src.image_filepath[1], fsys, ds)

\* UsesPayload tried only after the URL
UsesPayloadUnlessUrl(src) ==
    TruthyStr(src.encoded_image) /\ ~TruthyStr(src.image_url)

\* line 126
UsesPayload(src) == TruthyStr(src.encoded_image)

\* line 135
UsesUrl(src) == TruthyStr(src.image_url)

\* str(uuid.uuid4()): a name no other call draws
uuid4(r, which) == RelPath(<< Name("uuid" \o ToString(r) \o which) >>)

\* ImageName ignoring the file name it is given
ImageNameRandom(filename, r, which) == uuid4(r, which)

\* lines 121-124
ImageName(filename, r, which) ==
    IF filename # EmptyPath THEN filename ELSE uuid4(r, which)

\* lines 108-109: paths.private_outdir() / "roop" / folder
PrivateDir(folder) ==
    JoinPath(JoinPath(private_outdir, RelPath(<< Name("roop") >>)), RelPath(folder))

\* line 112
get_private_path(folder, filename) == JoinPath(PrivateDir(folder), filename)

\* line 125: os.path.join("source", folder), folder being f"{kind}/{date}"
SourceFolder(which, date) == << Name("source"), Name(which), date >>

\* line 165: f"output/{utc_date_str}"
OutputFolder(date) == << Name("output"), date >>

\* os.mkdir(p) for the directory with components p: "ok", or the error the
\* system call raises.  The path is looked up from the left, so the first
\* component that is not a directory decides.
MkdirError(p, fsys, ds) ==
    LET bad == { n \in 0..(Len(p) - 1) : SubSeq(p, 1, n) \notin ds }
    IN  IF bad # {}
        THEN LET n == CHOOSE m \in bad : \A k \in bad : m <= k
             IN  IF SubSeq(p, 1, n) \in DOMAIN fsys THEN "NotADirectoryError"
                 ELSE "FileNotFoundError"
        ELSE IF p \in ds \cup DOMAIN fsys THEN "FileExistsError"
        ELSE "ok"

\* One pending call of Path.mkdir: os.mkdir of `dir` with parents=True
\* ("parents") or parents=False ("plain"), or the is_dir() that follows an
\* os.mkdir that raised `err`.
Pending(dir, op, err) == [dir |-> dir, op |-> op, err |-> err]

\* line 111, one system call of private_dir.mkdir(parents=True,
\* exist_ok=True): os.mkdir of the directory; on FileNotFoundError the
\* parent is made first and os.mkdir tried again; on any other error is_dir()
\* decides between going on and raising.  `todo` is the stack of pending
\* calls, `err` the exception raised out of mkdir, if any.
MkdirCall(todo, fsys, ds) ==
    LET top == Head(todo)
        rest == Tail(todo)
        e == MkdirError(top.dir, fsys, ds)
    IN  IF top.op = "is_dir"
        THEN IF top.dir \in ds
             THEN [todo |-> rest, dirs |-> ds, made |-> {}, err |-> ""]
             ELSE [todo |-> <<>>, dirs |-> ds, made |-> {}, err |-> top.err]
        ELSE IF e = "ok"
        THEN [todo |-> rest, dirs |-> ds \cup {top.dir}, made |-> {top.dir}, err |-> ""]
        ELSE IF e = "FileNotFoundError"
        THEN IF top.op = "parents" /\ top.dir # <<>>
             THEN [todo |-> << Pending(Front(top.dir), "parents", ""),
                              Pending(top.dir, "plain", "") >> \o rest,
                   dirs |-> ds, made |-> {}, err |-> ""]
             ELSE [todo |-> <<>>, dirs |-> ds, made |-> {}, err |-> e]
        ELSE [todo |-> << Pending(top.dir, "is_dir", e) >> \o rest,
              dirs |-> ds, made |-> {}, err |-> ""]

\* The inode of the file a request creates for `kind` (face, swap, output)
NewInode(r, kind) == ToString(r) \o kind

\* NeedsRename for paths without an extension only
NeedsRenameBareOnly(image_type, path) ==
    image_type # None /\ ExtOf(path) = ""

\* lines 72-73: the sniffed type is known and is not the path's extension
NeedsRename(image_type, path) ==
    image_type # None /\ ExtOf(path) # image_type[1]

\* line 75
CorrectPath(path, image_type) == AddSuffix(BaseOf(path), image_type)

\* ResultMissing with the test inverted
ResultMissingInverted(result_image) == result_image # None

\* line 163
ResultMissing(result_image) == result_image = None

\* lines 141-145
pil_image_to_base64(image) ==
    [prefix |-> "data:image/png;base64,", payload |-> b64encode(PngBytes(image))]

Failed(l, code, detail) == [l EXCEPT !.status = code, !.detail = detail]

Op(h, which, op) == [h EXCEPT !.ops[which] = @ \cup {op}]

\* The resolver returns `path` for the source being resolved: the handler goes
\* on to the swap source, and then to the swap call.
Returned(l, path) ==
    IF l.which = "face"
    THEN [l EXCEPT !.face_image = Some(path), !.which = "swap",
                   !.image_name = None, !.path = None, !.handle = None,
                   !.body = None, !.image_type = None]
    ELSE [l EXCEPT !.swap_image = Some(path),
                   !.image_name = None, !.path = None, !.handle = None,
                   !.body = None, !.image_type = None]

AfterReturn(l) == IF l.which = "face" THEN "check" ELSE "open_face"

Event(l) == IF l.which = "face" THEN "face" ELSE "swap_source"

----------------------------------------------------------------------------
(* run_roop_on_single_image, one step at a time *)

Goto(r, label) == [pc EXCEPT ![r] = label]

Trace(h, event) == [h EXCEPT !.trace = Append(@, event)]

\* lines 150-152
Start(r) ==
    /\ pc[r] = "start"
    /\ loc' = [loc EXCEPT ![r].start_time = Some(clock),
                          ![r].utc_date = Some(utc_date_str(clock))]
    /\ pc' = Goto(r, "check")
    /\ hist' = [hist EXCEPT ![r] =
                  Trace([@ EXCEPT !.after = { q \in Requests : pc[q] = "done" }], "start")]
    /\ UNCHANGED <<clock, fs, dirs, sd_upscalers, face_restorers, req>>

\* download_image_if_needed, lines 116-124
Check(r) ==
    /\ pc[r] = "check"
    /\ LET src == Source(r)
           l == loc[r]
       IN  IF AllMissing(src)
           THEN /\ loc' = [loc EXCEPT ![r] = Failed(l, 400, DetailRequired)]
                /\ pc' = Goto(r, "done")
                /\ hist' = [hist EXCEPT ![r] = Op(@, l.which, "raise400")]
           ELSE IF UsesLocalPath(src, fs, dirs)
           THEN /\ loc' = [loc EXCEPT ![r] = Returned(l, src.image_filepath[1])]
                /\ pc' = Goto(r, AfterReturn(l))
                /\ hist' = [hist EXCEPT ![r] = Trace(Op(@, l.which, "local"), Event(l))]
           ELSE /\ loc' = [loc EXCEPT ![r].image_name =
                                Some(ImageName(req[r].task_id, r, l.which))]
                /\ pc' = Goto(r, "mkdir")
                /\ hist' = hist
    /\ UNCHANGED <<clock, fs, dirs, sd_upscalers, face_restorers, req>>

\* download_image_if_needed, line 125 (get_private_path, line 112) and the
\* choice of lines 126, 135 and 138, once the private directory is there
SourceBranch(r, l, h) ==
    LET src == Source(r)
        folder == SourceFolder(l.which, l.utc_date[1])
        path == Some(get_private_path(folder, l.image_name[1]))
    IN  IF UsesPayload(src)
        THEN /\ loc' = [loc EXCEPT ![r] = [l EXCEPT !.path = path]]
             /\ pc' = Goto(r, "decode")
             /\ hist' = [hist EXCEPT ![r] = h]
        ELSE IF UsesUrl(src)
        THEN /\ loc' = [loc EXCEPT ![r] = [l EXCEPT !.path = path]]
             /\ pc' = Goto(r, "fetch")
             /\ hist' = [hist EXCEPT ![r] = h]
        ELSE /\ loc' = [loc EXCEPT ![r] = Failed(l, 400, DetailProcess)]
             /\ pc' = Goto(r, "done")
             /\ hist' = [hist EXCEPT ![r] = Op(h, l.which, "raise400")]

\* download_image_if_needed, line 125: get_private_path, lines 108-110, the
\* exists() test of the private directory
SourcePath(r) ==
    /\ pc[r] = "mkdir"
    /\ LET l == loc[r]
           dir == PrivateDir(SourceFolder(l.which, l.utc_date[1]))
       IN  IF PathExists(dir, fs, dirs)
           THEN SourceBranch(r, l, hist[r])
           ELSE /\ loc' = [loc EXCEPT ![r].todo = << Pending(dir.segs, "parents", "") >>]
                /\ pc' = Goto(r, "src_mkdir")
                /\ hist' = hist
    /\ UNCHANGED <<clock, fs, dirs, sd_upscalers, face_restorers, req>>

\* get_private_path, line 111, one system call of mkdir at a time
SourceMkdir(r) ==
    /\ pc[r] = "src_mkdir"
    /\ LET l == loc[r]
           call == MkdirCall(l.todo, fs, dirs)
           made == [hist[r] EXCEPT !.made = @ \cup call.made]
       IN  /\ dirs' = call.dirs
           /\ IF call.err # ""
              THEN /\ loc' = [loc EXCEPT ![r] = Failed([l EXCEPT !.todo = <<>>], 500, call.err)]
                   /\ pc' = Goto(r, "done")
                   /\ hist' = [hist EXCEPT ![r] = made]
              ELSE IF call.todo = <<>>
              THEN SourceBranch(r, [l EXCEPT !.todo = <<>>], made)
              ELSE /\ loc' = [loc EXCEPT ![r].todo = call.todo]
                   /\ pc' = pc
                   /\ hist' = [hist EXCEPT ![r] = made]
    /\ UNCHANGED <<clock, fs, sd_upscalers, face_restorers, req>>

\* download_image_if_needed, lines 127-131: decode the payload, sniff its
\* type and name the file after it
DecodePayload(r) ==
    /\ pc[r] = "decode"
    /\ LET src == Source(r)
           l == loc[r]
           decoded == b64decode(src.encoded_image[1])
       IN  IF decoded = None
           THEN /\ loc' = [loc EXCEPT ![r] = Failed(l, 500, "binascii.Error")]
                /\ pc' = Goto(r, "done")
           ELSE LET file_type == imghdr_what(decoded[1])
                    path == IF file_type # None
                            THEN AddSuffix(l.path[1], file_type[1])
                            ELSE l.path[1]
                IN  /\ loc' = [loc EXCEPT ![r].path = Some(path), ![r].body = decoded]
                    /\ pc' = Goto(r, "pl_open")
    /\ hist' = [hist EXCEPT ![r] = Op(@, loc[r].which, "decode")]
    /\ UNCHANGED <<clock, fs, dirs, sd_upscalers, face_restorers, req>>

\* line 132 and line 61: open(path, "wb") leaves an empty file at the path
\* until the write that follows
OpenFile(r, next) ==
    LET l == loc[r]
    IN  IF ~Writable(l.path[1], dirs)
        THEN /\ loc' = [loc EXCEPT ![r] = Failed(l, 500, "OSError")]
             /\ pc' = Goto(r, "done")
             /\ UNCHANGED <<fs, hist>>
        ELSE LET key == Resolve(l.path[1], dirs)[1]
                 opened == OpenForWrite(fs, key, r, NewInode(r, l.which))
             IN  /\ fs' = opened
                 /\ loc' = [loc EXCEPT ![r].handle = Some(InodeAt(opened, key))]
                 /\ pc' = Goto(r, next)
                 /\ hist' = [hist EXCEPT ![r].written = @ \cup {key}]

\* download_image_if_needed, line 132
OpenPayload(r) ==
    /\ pc[r] = "pl_open"
    /\ OpenFile(r, "pl_write")
    /\ UNCHANGED <<clock, dirs, sd_upscalers, face_restorers, req>>

\* download_image_if_needed, lines 133-134
WritePayload(r) ==
    /\ pc[r] = "pl_write"
    /\ LET l == loc[r]
       IN  /\ fs' = WriteHandle(fs, l.handle[1], l.body[1], r)
           /\ loc' = [loc EXCEPT ![r] = Returned(l, l.path[1])]
           /\ pc' = Goto(r, AfterReturn(l))
           /\ hist' = [hist EXCEPT ![r] =
                Trace(Op([@ EXCEPT !.files = @ \cup {Resolve(l.path[1], dirs)[1]}],
                         l.which, "write"), Event(l))]
    /\ UNCHANGED <<clock, dirs, sd_upscalers, face_restorers, req>>

\* download_image, lines 57-58: requests.get(url, stream=True) returns once
\* the status and headers are in; it may fail (transport error, or a status
\* that raise_for_status turns into an exception).  The body is not read yet.
Fetch(r) ==
    /\ pc[r] = "fetch"
    /\ \E ok \in BOOLEAN :
         LET l == loc[r]
         IN  IF ok /\ UrlBody(Source(r).image_url[1]) # None
             THEN /\ loc' = loc
                  /\ pc' = Goto(r, "dl_open")
             ELSE /\ loc' = [loc EXCEPT ![r] = Failed(l, 500, "requests.HTTPError")]
                  /\ pc' = Goto(r, "done")
    /\ hist' = [hist EXCEPT ![r] =
                  Op([@ EXCEPT !.downloads = @ + 1], loc[r].which, "download")]
    /\ UNCHANGED <<clock, fs, dirs, sd_upscalers, face_restorers, req>>

\* download_image, line 61
OpenBody(r) ==
    /\ pc[r] = "dl_open"
    /\ OpenFile(r, "dl_write")
    /\ UNCHANGED <<clock, dirs, sd_upscalers, face_restorers, req>>

\* download_image, line 62: response.content reads the body off the
\* connection, which may fail and leave the file empty; the body is then
\* written to the open file
WriteBody(r) ==
    /\ pc[r] = "dl_write"
    /\ \E ok \in BOOLEAN :
         LET l == loc[r]
             body == UrlBody(Source(r).image_url[1])
         IN  IF ok
             THEN /\ fs' = WriteHandle(fs, l.handle[1], body[1], r)
                  /\ loc' = [loc EXCEPT ![r].body = body]
                  /\ pc' = Goto(r, "dl_sniff")
                  /\ hist' = [hist EXCEPT ![r] = Op(@, l.which, "write")]
             ELSE /\ loc' = [loc EXCEPT ![r] = Failed(l, 500, "requests.ConnectionError")]
                  /\ pc' = Goto(r, "done")
                  /\ UNCHANGED <<fs, hist>>
    /\ UNCHANGED <<clock, dirs, sd_upscalers, face_restorers, req>>

\* download_image, line 65: imghdr.what(output_path) reads the file back
SniffFile(r) ==
    /\ pc[r] = "dl_sniff"
    /\ LET l == loc[r]
       IN  IF ~Readable(l.path[1], fs, dirs)
           THEN /\ loc' = [loc EXCEPT ![r] = Failed(l, 500, "FileNotFoundError")]
                /\ pc' = Goto(r, "done")
           ELSE /\ loc' = [loc EXCEPT ![r].image_type =
                             imghdr_what(fs[Resolve(l.path[1], dirs)[1]].data)]
                /\ pc' = Goto(r, "dl_rename")
    /\ UNCHANGED <<clock, fs, dirs, sd_upscalers, face_restorers, req, hist>>

\* download_image, lines 72-78
RenameFile(r) ==
    /\ pc[r] = "dl_rename"
    /\ LET l == loc[r]
           path == l.path[1]
       IN  IF NeedsRename(l.image_type, path)
           THEN LET correct == CorrectPath(path, l.image_type[1])
                IN  IF ~(Readable(path, fs, dirs) /\ Writable(correct, dirs))
                    THEN /\ loc' = [loc EXCEPT ![r] = Failed(l, 500, "FileNotFoundError")]
                         /\ pc' = Goto(r, "done")
                         /\ UNCHANGED <<fs, hist>>
                    ELSE LET from == Resolve(path, dirs)[1]
                             to == Resolve(correct, dirs)[1]
                         IN  /\ fs' = PutFile(DropFile(fs, from), to, fs[from])
                             /\ loc' = [loc EXCEPT ![r] = Returned(l, correct)]
                             /\ pc' = Goto(r, AfterReturn(l))
                             /\ hist' = [hist EXCEPT ![r] =
                                  Trace(Op([@ EXCEPT !.written = @ \cup {to},
                                                     !.files = @ \cup {to}],
                                           l.which, "rename"), Event(l))]
           ELSE /\ loc' = [loc EXCEPT ![r] = Returned(l, path)]
                /\ pc' = Goto(r, AfterReturn(l))
                /\ hist' = [hist EXCEPT ![r] =
                     Trace([@ EXCEPT !.files = @ \cup {Resolve(path, dirs)[1]}], Event(l))]
                /\ fs' = fs
    /\ UNCHANGED <<clock, dirs, sd_upscalers, face_restorers, req>>

\* line 156: Image.open(face_image)
OpenFace(r) ==
    /\ pc[r] = "open_face"
    /\ LET l == loc[r]
           path == l.face_image[1]
       IN  IF Readable(path, fs, dirs) /\ IsImage(fs[Resolve(path, dirs)[1]].data)
           THEN /\ loc' = [loc EXCEPT ![r].face_opened = Some(fs[Resolve(path, dirs)[1]])]
                /\ pc' = Goto(r, "open_swap")
           ELSE /\ loc' = [loc EXCEPT ![r] = Failed(l, 500, "Image.open")]
                /\ pc' = Goto(r, "done")
    /\ UNCHANGED <<clock, fs, dirs, sd_upscalers, face_restorers, req, hist>>

\* line 157: Image.open(swap_image)
OpenSwap(r) ==
    /\ pc[r] = "open_swap"
    /\ LET l == loc[r]
           path == l.swap_image[1]
       IN  IF Readable(path, fs, dirs) /\ IsImage(fs[Resolve(path, dirs)[1]].data)
           THEN /\ loc' = [loc EXCEPT ![r].swap_opened = Some(fs[Resolve(path, dirs)[1]])]
                /\ pc' = Goto(r, "swap")
           ELSE /\ loc' = [loc EXCEPT ![r] = Failed(l, 500, "Image.open")]
                /\ pc' = Goto(r, "done")
    /\ UNCHANGED <<clock, fs, dirs, sd_upscalers, face_restorers, req, hist>>

\* lines 155-164: the option mapper, the swap call (which may raise, return
\* no image, or return an image) and the check of its result
SwapFace(r) ==
    /\ pc[r] = "swap"
    /\ \E outcome \in {"raise", "none", "image"} :
         LET l == loc[r]
             options == upscale_options(req[r].upscale_options,
                                        sd_upscalers, face_restorers)
             result_image == IF outcome = "image" THEN Some("imgR") ELSE None
             called == [l EXCEPT !.options = Some(options),
                                 !.returned = (outcome # "raise"),
                                 !.result = result_image]
         IN  IF outcome = "raise"
             THEN /\ loc' = [loc EXCEPT ![r] = Failed(called, 500, "swap_face")]
                  /\ pc' = Goto(r, "done")
             ELSE IF ResultMissing(result_image)
             THEN /\ loc' = [loc EXCEPT ![r] = Failed(called, 400, DetailRoop)]
                  /\ pc' = Goto(r, "done")
             ELSE /\ loc' = [loc EXCEPT ![r] = called]
                  /\ pc' = Goto(r, "outdir")
    /\ hist' = [hist EXCEPT ![r] = Trace([@ EXCEPT !.swaps = @ + 1], "swap")]
    /\ UNCHANGED <<clock, fs, dirs, sd_upscalers, face_restorers, req>>

\* line 165 (get_private_path, line 112), once the output directory is there
OutputBranch(r, l) ==
    /\ loc' = [loc EXCEPT ![r] = [l EXCEPT !.output_filepath =
         Some(get_private_path(OutputFolder(l.utc_date[1]),
                               AddSuffix(req[r].task_id, "png")))]]
    /\ pc' = Goto(r, "save")

\* line 165: get_private_path, lines 108-110, the exists() test of the output
\* directory
OutputPath(r) ==
    /\ pc[r] = "outdir"
    /\ LET l == loc[r]
           dir == PrivateDir(OutputFolder(l.utc_date[1]))
       IN  IF PathExists(dir, fs, dirs)
           THEN OutputBranch(r, l)
           ELSE /\ loc' = [loc EXCEPT ![r].todo = << Pending(dir.segs, "parents", "") >>]
                /\ pc' = Goto(r, "out_mkdir")
    /\ UNCHANGED <<clock, fs, dirs, sd_upscalers, face_restorers, req, hist>>

\* line 165: get_private_path, line 111, one system call of mkdir at a time
OutputMkdir(r) ==
    /\ pc[r] = "out_mkdir"
    /\ LET l == loc[r]
           call == MkdirCall(l.todo, fs, dirs)
       IN  /\ dirs' = call.dirs
           /\ hist' = [hist EXCEPT ![r].made = @ \cup call.made]
           /\ IF call.err # ""
              THEN /\ loc' = [loc EXCEPT ![r] = Failed([l EXCEPT !.todo = <<>>], 500, call.err)]
                   /\ pc' = Goto(r, "done")
              ELSE IF call.todo = <<>>
              THEN OutputBranch(r, [l EXCEPT !.todo = <<>>])
              ELSE /\ loc' = [loc EXCEPT ![r].todo = call.todo]
                   /\ pc' = pc
    /\ UNCHANGED <<clock, fs, sd_upscalers, face_restorers, req>>

\* line 166: result_image.save(path) opens the file for writing, which
\* leaves it empty until the image is written
OpenOutput(r) ==
    /\ pc[r] = "save"
    /\ LET l == loc[r]
           path == l.output_filepath[1]
       IN  IF l.result = None
           THEN /\ loc' = [loc EXCEPT ![r] = Failed(l, 500, "AttributeError")]
                /\ pc' = Goto(r, "done")
                /\ UNCHANGED <<fs, hist>>
           ELSE IF ~Writable(path, dirs)
           THEN /\ loc' = [loc EXCEPT ![r] = Failed(l, 500, "OSError")]
                /\ pc' = Goto(r, "done")
                /\ UNCHANGED <<fs, hist>>
           ELSE LET key == Resolve(path, dirs)[1]
                    opened == OpenForWrite(fs, key, r, NewInode(r, "output"))
                IN  /\ fs' = opened
                    /\ loc' = [loc EXCEPT ![r].handle = Some(InodeAt(opened, key))]
                    /\ pc' = Goto(r, "save_write")
                    /\ hist' = [hist EXCEPT ![r].written = @ \cup {key},
                                            ![r].files = @ \cup {key}]
    /\ UNCHANGED <<clock, dirs, sd_upscalers, face_restorers, req>>

\* line 166, the image written as PNG to the open file
SaveResult(r) ==
    /\ pc[r] = "save_write"
    /\ fs' = WriteHandle(fs, loc[r].handle[1], PngBytes(loc[r].result[1]), r)
    /\ loc' = [loc EXCEPT ![r].handle = None]
    /\ pc' = Goto(r, "finish")
    /\ hist' = [hist EXCEPT ![r] = Trace(@, "output")]
    /\ UNCHANGED <<clock, dirs, sd_upscalers, face_restorers, req>>

\* line 167
Finish(r) ==
    /\ pc[r] = "finish"
    /\ loc' = [loc EXCEPT ![r].finish_time = Some(clock)]
    /\ pc' = Goto(r, "respond")
    /\ hist' = [hist EXCEPT ![r] = Trace(@, "finish")]
    /\ UNCHANGED <<clock, fs, dirs, sd_upscalers, face_restorers, req>>

\* lines 168-173
RoopResponse(r) ==
    [ task_id |-> req[r].task_id,
      encoded_image |-> pil_image_to_base64(loc[r].result[1]),
      start_time |-> FormatTime(loc[r].start_time[1]),
      finish_time |-> FormatTime(loc[r].finish_time[1]) ]

Respond(r) ==
    /\ pc[r] = "respond"
    /\ loc' = [loc EXCEPT ![r].response = Some(RoopResponse(r)), ![r].status = 200]
    /\ pc' = Goto(r, "done")
    /\ hist' = [hist EXCEPT ![r] = Trace(@, "response")]
    /\ UNCHANGED <<clock, fs, dirs, sd_upscalers, face_restorers, req>>

\* datetime.now(timezone.utc) reads the wall clock: between any two steps it
\* moves on, and it can be set back.  `times` are the readings considered.
Tick(times) ==
    /\ \E t \in times : t # clock /\ clock' = t
    /\ UNCHANGED <<fs, dirs, sd_upscalers, face_restorers, req, pc, loc, hist>>

\* upscale_options alone, lines 95-104
MapOptions(r) ==
    /\ pc[r] = "options"
    /\ loc' = [loc EXCEPT ![r].options =
                 Some(upscale_options(req[r].upscale_options,
                                      sd_upscalers, face_restorers))]
    /\ pc' = Goto(r, "done")
    /\ UNCHANGED <<clock, fs, dirs, sd_upscalers, face_restorers, req, hist>>

----------------------------------------------------------------------------
(* Inputs *)

T1 == RelPath(<< Name("t1") >>)

T1Png == RelPath(<< <<"t1", "png">> >>)

T1Jpg == RelPath(<< <<"t1", "jpg">> >>)

\* "../../../../../evil"
Climb == RelPath(<< DotDot, DotDot, DotDot, DotDot, DotDot, Name("evil") >>)

\* "/tmp/evil"
Rooted == AbsPath(<< Name("tmp"), Name("evil") >>)

TaskIds == { EmptyPath, T1, T1Png, T1Jpg, Climb, Rooted }

Urls == { None, Some(""), Some("http://h/png"), Some("http://h/raw"), Some("http://h/404") }

Payloads == { None, Some(""), Some("b64:pngA"), Some("b64:rawD"), Some("b64") }

FilePaths ==
    { None, Some(EmptyPath), Some(LocalImage), Some(DottedImage), Some(MissingImage) }

AllSources == { ImageSource(u, e, p) : u \in Urls, e \in Payloads, p \in FilePaths }

NoSource == ImageSource(None, None, None)

LocalSource == ImageSource(None, None, Some(LocalImage))

PayloadSource == ImageSource(None, Some("b64:pngA"), None)

RawPayloadSource == ImageSource(None, Some("b64:rawD"), None)

UrlSource == ImageSource(Some("http://h/png"), None, None)

EmptySource == ImageSource(Some(""), Some(""), Some(EmptyPath))

SomeSources == { NoSource, LocalSource, PayloadSource, UrlSource, EmptySource }

Idle == RoopOptions(EmptyPath, NoSource, NoSource, DefaultUpscaleOptions)

\* Every reading of the clock, and the first instants of the days
ClockValues == 0..MaxClock

DayStarts == { d * TicksPerDay : d \in 0..(MaxClock \div TicksPerDay) }

InitWith(requests, first, disks) ==
    /\ clock = 0
    /\ \E d \in disks : fs = d[1] /\ dirs = d[2]
    /\ sd_upscalers = DefaultUpscalers
    /\ face_restorers = DefaultRestorers
    /\ req \in requests
    /\ pc = [r \in Requests |-> first[r]]
    /\ loc = [r \in Requests |-> Loc0]
    /\ hist = [r \in Requests |-> Hist0]

Step(r) ==
    \/ Start(r)
    \/ Check(r)
    \/ SourcePath(r)
    \/ SourceMkdir(r)
    \/ DecodePayload(r)
    \/ OpenPayload(r)
    \/ WritePayload(r)
    \/ Fetch(r)
    \/ OpenBody(r)
    \/ WriteBody(r)
    \/ SniffFile(r)
    \/ RenameFile(r)
    \/ OpenFace(r)
    \/ OpenSwap(r)
    \/ SwapFace(r)
    \/ OutputPath(r)
    \/ OutputMkdir(r)
    \/ OpenOutput(r)
    \/ SaveResult(r)
    \/ Finish(r)
    \/ Respond(r)

----------------------------------------------------------------------------
(* Two requests of one caller, handled concurrently: their steps interleave *)
(* in every order, one after the other included, while the date changes.   *)
(* The clock is read at the first instant of a day: only the date enters   *)
(* the paths the two requests share.                                       *)

RacingRequests ==
    { RoopOptions(t, f, s, DefaultUpscaleOptions) :
        t \in { EmptyPath, T1, T1Png },
        f \in { PayloadSource, UrlSource },
        s \in { LocalSource } }

\* The directories of a caller who has sent face images before: the face
\* folder is there, the folders of the date and the output folder are not.
UsedDirs == Dirs0 \cup Prefixes(PrivateDir(<< Name("source"), Name("face") >>).segs)

Init == InitWith([Requests -> RacingRequests], <<"start", "start">>, { <<FS0, UsedDirs>> })

Next == Tick(DayStarts) \/ \E r \in Requests : Step(r)

Spec == Init /\ [][Next]_vars

----------------------------------------------------------------------------
(* One request, the clock running, on a clean and on a blocked disk *)

HandlerRequests ==
    { RoopOptions(t, f, s, DefaultUpscaleOptions) :
        t \in TaskIds, f \in SomeSources, s \in SomeSources }

InitHandler ==
    InitWith({ <<q, Idle>> : q \in HandlerRequests }, <<"start", "idle">>,
             { <<FS0, Dirs0>>, <<FS1, Dirs1>> })

NextHandler == Tick(ClockValues) \/ Step(1)

SpecHandler == InitHandler /\ [][NextHandler]_vars

----------------------------------------------------------------------------
(* One request, every shape of the face source *)

ResolverRequests ==
    { RoopOptions(t, f, LocalSource, DefaultUpscaleOptions) :
        t \in TaskIds, f \in AllSources }

InitResolver ==
    InitWith({ <<q, Idle>> : q \in ResolverRequests }, <<"start", "idle">>,
             { <<FS0, Dirs0>> })

NextResolver == Step(1)

SpecResolver == InitResolver /\ [][NextResolver]_vars

----------------------------------------------------------------------------
(* The option mapper alone, over registries and requested names *)

MaxRegistry == 2

RegistryNames == { "CodeFormer", "Lanczos" }

RequestedNames == { "", "CodeFormer", "Lanczos" }

Registries ==
    UNION { { Registry(names) : names \in [1..n -> RegistryNames] } : n \in 0..MaxRegistry }

OptionRequests ==
    { RoopOptions(T1, LocalSource, LocalSource,
        [ scale |-> sc, upscaler_name |-> un, upscale_visibility |-> uv,
          face_restorer_name |-> fn, restorer_visibility |-> rv ]) :
        sc \in {1, 2}, un \in RequestedNames, uv \in {0, 100},
        fn \in RequestedNames, rv \in {50, 100} }

InitOptions ==
    /\ clock = 0
    /\ fs = FS0
    /\ dirs = Dirs0
    /\ sd_upscalers \in Registries
    /\ face_restorers \in Registries
    /\ req \in { <<q, Idle>> : q \in OptionRequests }
    /\ pc = <<"options", "idle">>
    /\ loc = [r \in Requests |-> Loc0]
    /\ hist = [r \in Requests |-> Hist0]

NextOptions == MapOptions(1)

SpecOptions == InitOptions /\ [][NextOptions]_vars

----------------------------------------------------------------------------
(* Properties *)

GivenStr(o) == o # None /\ o[1] # ""

GivenPath(o) == o # None /\ o[1] # EmptyPath

LacksAll(src) ==
    src.image_url = None /\ src.encoded_image = None /\ src.image_filepath = None

IsUnder(dir, key) == Len(key) >= Len(dir) /\ SubSeq(key, 1, Len(dir)) = dir

IsPrefix(s, t) == Len(s) <= Len(t) /\ SubSeq(t, 1, Len(s)) = s

Active == { r \in Requests : pc[r] # "idle" }

\* The value the resolver call of request r for source `which` returned.
ReturnedPath(l, which) == IF which = "face" THEN l.face_image ELSE l.swap_image

\* C1 as stated: a request one of whose image sources has none of the three
\* fields ends with HTTP 400, and no download and no swap call happened in it.
C1_RejectedBeforeAnyCall ==
    \A r \in Active :
        (pc[r] = "done" /\ (LacksAll(req[r].source_image) \/ LacksAll(req[r].swap_image)))
        => /\ loc[r].status = 400
           /\ hist[r].downloads = 0
           /\ hist[r].swaps = 0

\* C1 amended: the resolver call for a source that has none of the three
\* fields raises the 400 "at least one is required" error without downloading,
\* writing or creating anything, and the request never reaches the swap call
\* or a 200 response.  When the source is source_image the request ends with
\* that 400 and nothing was downloaded or written in it at all; when it is
\* swap_image the face source has been resolved first (a download included),
\* and the request ends with that 400 once the face source resolved.
C1_RejectedByResolver ==
    \A r \in Active :
        /\ LacksAll(req[r].source_image) =>
             /\ hist[r].downloads = 0 /\ hist[r].swaps = 0
             /\ hist[r].written = {} /\ hist[r].made = {}
             /\ loc[r].status \in {0, 400}
             /\ pc[r] = "done" =>
                  /\ loc[r].status = 400 /\ loc[r].detail = DetailRequired
                  /\ hist[r].ops.face = {"raise400"}
        /\ LacksAll(req[r].swap_image) =>
             /\ hist[r].swaps = 0
             /\ loc[r].status # 200
             /\ hist[r].ops.swap \subseteq {"raise400"}
             /\ (pc[r] = "done" /\ loc[r].face_image # None) =>
                  /\ loc[r].status = 400 /\ loc[r].detail = DetailRequired
                  /\ hist[r].ops.swap = {"raise400"}

\* The swap source has no field, the face source was downloaded, and the
\* request ended with 400.
C1_Witness ==
    /\ pc[1] = "done"
    /\ LacksAll(req[1].swap_image)
    /\ hist[1].downloads = 1
    /\ "rename" \in hist[1].ops.face
    /\ loc[1].status = 400

\* C2: a resolver call whose image_filepath is set and exists returns that
\* path as given and changes nothing on disk: no file written, no directory
\* made, no payload decoded, no download, whatever the other two fields are.
C2_LocalPathVerbatim ==
    [][ \A r \in Active :
          LET src == Source(r)
              which == loc[r].which
          IN  ( /\ pc[r] = "check"
                /\ <<pc[r], loc[r]>> # <<pc'[r], loc'[r]>>
                /\ GivenPath(src.image_filepath)
                /\ PathExists(src.image_filepath[1], fs, dirs) )
              => /\ ReturnedPath(loc'[r], which) = src.image_filepath
                 /\ fs' = fs
                 /\ dirs' = dirs
                 /\ hist'[r].ops[which] = {"local"}
                 /\ hist'[r].downloads = hist[r].downloads
                 /\ hist'[r].written = hist[r].written
                 /\ hist'[r].made = hist[r].made
                 /\ loc'[r].status = 0 ]_vars

\* The face source gave an existing path together with a payload and a URL,
\* and the call returned the path with the disk as it was.
C2_Witness ==
    /\ req[1].source_image = ImageSource(Some("http://h/png"), Some("b64:pngA"), Some(LocalImage))
    /\ loc[1].face_image = Some(LocalImage)
    /\ loc[1].which = "swap"
    /\ pc[1] = "check"
    /\ fs = FS0
    /\ dirs = Dirs0

FaceCallOver(r) == loc[r].which = "swap" \/ pc[r] = "done"

\* C3: for every combination of given, empty and absent fields the call for
\* the face source follows the precedence: an existing local path is returned
\* and nothing else is done; otherwise a non-empty payload is decoded (and,
\* when it decodes, written) and nothing is downloaded even with a URL given;
\* otherwise a non-empty URL is downloaded; otherwise the call raises HTTP 400.
C3_Precedence ==
    \A r \in Active :
        LET src == req[r].source_image
            ops == hist[r].ops.face
            local == GivenPath(src.image_filepath)
                       /\ PathExists(src.image_filepath[1], FS0, Dirs0)
            payload == ~local /\ GivenStr(src.encoded_image)
            url == ~local /\ ~payload /\ GivenStr(src.image_url)
        IN  /\ local =>
                 /\ ops \subseteq {"local"}
                 /\ FaceCallOver(r) =>
                      ops = {"local"} /\ loc[r].face_image = src.image_filepath
            /\ payload =>
                 /\ ops \subseteq {"decode", "write"}
                 /\ hist[r].downloads = 0
                 /\ FaceCallOver(r) =>
                      /\ "decode" \in ops
                      /\ b64decode(src.encoded_image[1]) # None =>
                           "write" \in ops /\ loc[r].face_image # None
            /\ url =>
                 /\ ops \subseteq {"download", "write", "rename"}
                 /\ FaceCallOver(r) => "download" \in ops
            /\ (~local /\ ~payload /\ ~url) =>
                 /\ ops \subseteq {"raise400"}
                 /\ hist[r].written = {}
                 /\ FaceCallOver(r) =>
                      /\ ops = {"raise400"}
                      /\ loc[r].status = 400
                      /\ loc[r].face_image = None

\* A missing path, a payload and a URL were given: the payload was decoded
\* and written, nothing was downloaded.
C3_Witness ==
    /\ req[1].source_image = ImageSource(Some("http://h/png"), Some("b64:pngA"), Some(MissingImage))
    /\ loc[1].which = "swap"
    /\ hist[1].ops.face = {"decode", "write"}
    /\ hist[1].downloads = 0

\* C4: when the swap call returns no image the handler ends with HTTP 400
\* "Roop process image failed", and the request has not saved an output file:
\* the output path was not computed, its directory not made, and no file
\* holds a result written by this request.
C4_NoOutputWithoutResult ==
    \A r \in Active :
        (loc[r].returned /\ loc[r].result = None) =>
            /\ pc[r] = "done"
            /\ loc[r].status = 400
            /\ loc[r].detail = DetailRoop
            /\ loc[r].output_filepath = None
            /\ "output" \notin { hist[r].trace[i] : i \in DOMAIN hist[r].trace }
            /\ PrivateDir(OutputFolder(loc[r].utc_date[1])).segs \notin hist[r].made
            /\ \A k \in DOMAIN fs : ~(fs[k].by = r /\ fs[k].data = PngBytes("imgR"))

\* The swap call was made on two resolved sources and returned no image.
C4_Witness ==
    /\ hist[1].swaps = 1
    /\ loc[1].returned
    /\ loc[1].result = None
    /\ loc[1].status = 400
    /\ "write" \in hist[1].ops.face

\* C5 as stated: whatever the task id, every file written or renamed and
\* every directory made by the handler lies inside the caller's private
\* directory.
C5_WritesStayPrivate ==
    \A r \in Active :
        \A k \in hist[r].written \cup hist[r].made : IsUnder(private_outdir.segs, k)

\* C6 as stated: of two requests with distinct task ids, the second begun
\* after the first ended, the files written by one (sources and output,
\* with the extension they end up with) are none of the files written by the
\* other.
C6_DisjointFiles ==
    \A r1 \in Active : \A r2 \in Active :
        (r1 \in hist[r2].after /\ req[r1].task_id # req[r2].task_id)
        => hist[r1].files \cap hist[r2].files = {}

\* C7: nothing keeps two requests with the same task id and date apart:
\* get_private_path gives them the same source path and the same output path,
\* and while one is between opening a file and returning its path the other
\* is never kept waiting, so one can read what the other wrote.
MidFile == {"pl_write", "dl_write", "dl_sniff", "dl_rename", "save_write"}

C7_SameTaskSamePath ==
    \A r1 \in Active : \A r2 \in Active :
        /\ ( /\ req[r1].task_id = req[r2].task_id
             /\ req[r1].task_id # EmptyPath
             /\ loc[r1].utc_date # None
             /\ loc[r1].utc_date = loc[r2].utc_date )
           => /\ ( /\ loc[r1].which = loc[r2].which
                   /\ pc[r1] \in {"decode", "fetch"}
                   /\ pc[r2] \in {"decode", "fetch"} )
                 => loc[r1].path = loc[r2].path
              /\ (loc[r1].output_filepath # None /\ loc[r2].output_filepath # None)
                 => loc[r1].output_filepath = loc[r2].output_filepath
        /\ (r1 # r2 /\ pc[r2] \in MidFile /\ pc[r1] # "done") => ENABLED Step(r1)

\* Request 1 made its swap call on a face file whose content request 2 wrote,
\* both requests having the same task id and date.
C7_Witness ==
    /\ req[1].task_id = req[2].task_id
    /\ loc[1].utc_date = loc[2].utc_date
    /\ hist[1].swaps = 1
    /\ "write" \in hist[1].ops.face
    /\ loc[1].face_opened # None
    /\ loc[1].face_opened[1].by = 2

\* C8: when a download succeeds and the sniffed type of the body is known and
\* is not the destination's extension, the returned path is the destination
\* with the sniffed type as its extension, the file at the returned path holds
\* the body, no file is left at the destination, and the download added that
\* one file to the disk.
C8_RenamedToSniffedType ==
    [][ \A r \in Active :
          LET l == loc[r]
              which == l.which
          IN  ( /\ pc[r] = "dl_rename"
                /\ pc'[r] # "dl_rename"
                /\ loc'[r].status = 0
                /\ imghdr_what(l.body[1]) # None
                /\ ExtOf(l.path[1]) # imghdr_what(l.body[1])[1] )
              => LET ret == ReturnedPath(loc'[r], which)
                 IN  /\ ret # None
                     /\ ret[1] # l.path[1]
                     /\ ExtOf(ret[1]) = imghdr_what(l.body[1])[1]
                     /\ BaseOf(ret[1]) = BaseOf(l.path[1])
                     /\ Readable(ret[1], fs', dirs')
                     /\ fs'[Resolve(ret[1], dirs')[1]].data = l.body[1]
                     /\ ~PathExists(l.path[1], fs', dirs')
                     /\ which = "face" =>
                          DOMAIN fs' = (DOMAIN FS0) \cup {Resolve(ret[1], dirs')[1]} ]_vars

\* A PNG body was downloaded for task id "t1.jpg": the file is t1.png, and
\* there is no t1.jpg.
C8_Witness ==
    /\ req[1].task_id = T1Jpg
    /\ "rename" \in hist[1].ops.face
    /\ loc[1].which = "swap"
    /\ pc[1] = "check"
    /\ ExtOf(loc[1].face_image[1]) = "png"
    /\ Cardinality(DOMAIN fs) = 2

SlotIsFirstMatch(slot, registry, name) ==
    IF \A i \in DOMAIN registry : registry[i].name # name
    THEN slot = None
    ELSE \E i \in DOMAIN registry :
            /\ registry[i].name = name
            /\ \A j \in 1..(i - 1) : registry[j].name # name
            /\ slot = Some(registry[i])

\* C9: the option mapper always yields options: each slot is none when no
\* registry entry has exactly the requested name and the first such entry
\* otherwise, and scale and both visibilities are the request's.
C9_OptionMapper ==
    \A r \in Active :
        pc[r] = "done" =>
            /\ loc[r].options # None
            /\ LET o == loc[r].options[1]
                   q == req[r].upscale_options
               IN  /\ o.scale = q.scale
                   /\ o.upscale_visibility = q.upscale_visibility
                   /\ o.restorer_visibility = q.restorer_visibility
                   /\ SlotIsFirstMatch(o.upscaler, sd_upscalers, q.upscaler_name)
                   /\ SlotIsFirstMatch(o.face_restorer, face_restorers, q.face_restorer_name)

\* Two upscalers have the requested name and the first was taken; no face
\* restorer has the requested name and the slot is none.
C9_Witness ==
    /\ pc[1] = "done"
    /\ Len(sd_upscalers) = 2
    /\ sd_upscalers[1].name = sd_upscalers[2].name
    /\ loc[1].options[1].upscaler = Some(sd_upscalers[1])
    /\ face_restorers # <<>>
    /\ loc[1].options[1].face_restorer = None

HandlerOrder ==
    <<"start", "face", "swap_source", "swap", "output", "finish", "response">>

\* C10 as stated: the handler's steps happen in the order start, face source,
\* swap source, swap call, output file, finish, response; the swap call is
\* made only with both sources resolved; a response carries the request's task
\* id and a finish_time not earlier than its start_time.
C10_StepOrder ==
    \A r \in Active :
        /\ IsPrefix(hist[r].trace, HandlerOrder)
        /\ hist[r].swaps > 0 => loc[r].face_image # None /\ loc[r].swap_image # None
        /\ loc[r].response # None =>
             /\ hist[r].trace = HandlerOrder
             /\ loc[r].status = 200
             /\ loc[r].response[1].task_id = req[r].task_id
             /\ TimeLeq(loc[r].response[1].start_time, loc[r].response[1].finish_time)

====
